---- MODULE Spec2Model ----
(***************************************************************************)
(* State-machine model of data.py: the DataWrapper container and the       *)
(* RecData preparation object (id remapping, feature vocabularies,         *)
(* feature encoding/padding, train/test windowing, vocabulary files).      *)
(*                                                                         *)
(* Conventions.                                                            *)
(*   - A Python list is a TLA+ sequence; Python positions are 0-based and  *)
(*     are kept 0-based in every stored index (row r of a table is         *)
(*     element r+1 of the sequence).                                       *)
(*   - An optional value is a sequence of length 0 (None) or 1.            *)
(*   - A feature value is a record [kind, num, chars]: a Python int        *)
(*     (kind "int", num) or a Python str (kind "str", chars = the list of  *)
(*     its code points).                                                   *)
(*   - An OrderedDict is the sequence of its [key, code] entries.          *)
(***************************************************************************)
EXTENDS Integers, Sequences, FiniteSets, TLC

VARIABLES
    pc,                 \* "new" | "ready" | "failed": life of the RecData object
    exc,                \* exception raised by the last call, "none" if it returned
    op,                 \* name of the last call ("__init__(feature_path)" when given one)
    config,             \* [max_history_length, top_k]
    items, users, trans,            \* tables: [n |-> rows, col |-> [name -> column]]
    item_index_map, user_index_map, \* id -> row index, as sequences of [key, code]
    item_feature_dict, user_feature_dict, trans_feature_dict,
    train_wrapper, test_wrapper,    \* DataWrapper objects of the RecData
    info_data, desc_data, image_data, profile_data, context_data, \* optional arrays (rows)
    disk,               \* optional content of the three vocabulary files
    test_users_arg,     \* argument of the last prepare_train call (mapped), optional
    train_calls,        \* number of prepare_train calls so far
    samples,            \* optional result of the last train_dataset call
    wrapper             \* a free-standing DataWrapper object

vars == <<pc, exc, op, config, items, users, trans, item_index_map, user_index_map,
          item_feature_dict, user_feature_dict, trans_feature_dict,
          train_wrapper, test_wrapper,
          info_data, desc_data, image_data, profile_data, context_data,
          disk, test_users_arg, train_calls, samples, wrapper>>

-----------------------------------------------------------------------------
(* Bounds of the model *)

MaxTrans == 4       \* longest transaction table of the windowing runs
MaxHist == 2        \* largest config.max_history_length
MaxTopK == 3        \* largest config.top_k
MaxTrainCalls == 1  \* prepare_train calls per object
MaxRows == 2        \* longest table of the vocabulary runs
MaxWrap == 3        \* longest free-standing DataWrapper

-----------------------------------------------------------------------------
(* Python values *)

None == <<>>
Some(x) == <<x>>
IsNone(o) == Len(o) = 0
The(o) == o[1]

\* float('nan'), what Series.map gives for a key missing from the map
NaN == -2
\* value= argument of pad_sequences
PadValue == -1

Min(a, b) == IF a < b THEN a ELSE b
Max(a, b) == IF a > b THEN a ELSE b

IntVal(n) == [kind |-> "int", num |-> n, chars |-> <<>>]
StrVal(cs) == [kind |-> "str", num |-> 0, chars |-> cs]

\* str < str: lexicographic on code points
RECURSIVE LexLess(_, _)
LexLess(a, b) ==
    IF Len(b) = 0 THEN FALSE
    ELSE IF Len(a) = 0 THEN TRUE
    ELSE IF a[1] # b[1] THEN a[1] < b[1]
    ELSE LexLess(Tail(a), Tail(b))

\* x < y for two values of the same Python type
ValLess(x, y) ==
    IF x.kind = "int" THEN x.num < y.num ELSE LexLess(x.chars, y.chars)

\* sorted(vals) of a set
RECURSIVE Sorted(_)
Sorted(S) ==
    IF S = {} THEN <<>>
    ELSE LET m == CHOOSE x \in S : \A y \in S \ {x} : ValLess(x, y)
         IN  <<m>> \o Sorted(S \ {m})

\* set(column)
SetOf(s) == {s[i] : i \in 1..Len(s)}

\* s[:e] and s[b:] with Python's treatment of negative and out-of-range bounds
PyBound(k, n) == IF k < 0 THEN Max(k + n, 0) ELSE Min(k, n)
SliceTo(s, e) == SubSeq(s, 1, PyBound(e, Len(s)))
SliceFrom(s, b) == SubSeq(s, PyBound(b, Len(s)) + 1, Len(s))

\* str(n) of a non-negative int, as code points ('0' is 48)
RECURSIVE Digits(_)
Digits(n) == IF n < 10 THEN <<48 + n>> ELSE Digits(n \div 10) \o <<48 + (n % 10)>>

-----------------------------------------------------------------------------
(* dict / OrderedDict *)

\* OrderedDict([(val, i) for i, val in enumerate(seq)])
Enumerate(seq) == [i \in 1..Len(seq) |-> [key |-> seq[i], code |-> i - 1]]

HasKey(d, k) == \E i \in 1..Len(d) : d[i].key = k
Lookup(d, k) == d[CHOOSE i \in 1..Len(d) : d[i].key = k].code
\* dict.get(k, default)
Get(d, k, default) == IF HasKey(d, k) THEN Lookup(d, k) ELSE default
Keys(d) == {d[i].key : i \in 1..Len(d)}
Codes(d) == {d[i].code : i \in 1..Len(d)}

\* OrderedDict(pairs): a repeated key keeps its first position and its last value
RECURSIVE FromPairs(_)
FromPairs(ps) ==
    IF Len(ps) = 0 THEN <<>>
    ELSE LET init == FromPairs(SubSeq(ps, 1, Len(ps) - 1))
             p == ps[Len(ps)]
         IN  IF HasKey(init, p.key)
             THEN [i \in 1..Len(init) |->
                      IF init[i].key = p.key THEN p ELSE init[i]]
             ELSE Append(init, p)

-----------------------------------------------------------------------------
(* class DataWrapper *)

\* DataWrapper.__init__; index is the set of [key, code] entries of the dict
DataWrapper_init ==
    [user_indices |-> <<>>, trans_indices |-> <<>>, ground_truth |-> <<>>,
     index |-> <<>>]

\* dict[k] = v
SetItem(d, k, v) ==
    IF HasKey(d, k)
    THEN [i \in 1..Len(d) |-> IF d[i].key = k THEN [key |-> k, code |-> v] ELSE d[i]]
    ELSE Append(d, [key |-> k, code |-> v])

\* The assert statement of DataWrapper.append is given a parenthesised pair
\* (condition, message): a non-empty tuple, which is always true.
append_assert(w, user_indice) == <<~HasKey(w.index, user_indice), "message">> # <<>>

\* DataWrapper.append; ground_truth_indices is optional. The result is the new
\* wrapper, or the wrapper unchanged when the assert fails.
DataWrapper_append(w, user_indice, trans_indices, ground_truth_indices) ==
    IF ~append_assert(w, user_indice) THEN w
    ELSE LET n == Len(w.user_indices) + 1
         IN  [user_indices |-> Append(w.user_indices, user_indice),
              trans_indices |-> Append(w.trans_indices, trans_indices),
              ground_truth |->
                  IF IsNone(ground_truth_indices) THEN w.ground_truth
                  ELSE Append(w.ground_truth, The(ground_truth_indices)),
              index |-> SetItem(w.index, user_indice, n - 1)]

\* DataWrapper.set_value, defined when user_indice is a key of the index and,
\* for a given ground_truth, when the position exists in the ground_truth list
set_value_ok(w, user_indice, ground_truth) ==
    /\ HasKey(w.index, user_indice)
    /\ IsNone(ground_truth) \/ Lookup(w.index, user_indice) < Len(w.ground_truth)

DataWrapper_set_value(w, user_indice, trans_indices, ground_truth) ==
    LET index == Lookup(w.index, user_indice) + 1
    IN  [w EXCEPT !.user_indices[index] = user_indice,
                  !.trans_indices[index] = trans_indices,
                  !.ground_truth =
                      IF IsNone(ground_truth) THEN @
                      ELSE [@ EXCEPT ![index] = The(ground_truth)]]

\* line 50 reads ground_truth[i] for every i < len(self): a non-empty ground_truth
\* shorter than user_indices raises IndexError
shuffle_ok(w) == Len(w.ground_truth) = 0 \/ Len(w.ground_truth) >= Len(w.user_indices)

\* DataWrapper.shuffle: indices = list(range(len(self))), the identity order
DataWrapper_shuffle(w) ==
    LET indices == [i \in 1..Len(w.user_indices) |-> i - 1]
    IN  [w EXCEPT !.user_indices = [i \in 1..Len(indices) |-> w.user_indices[indices[i] + 1]],
                  !.trans_indices = [i \in 1..Len(indices) |-> w.trans_indices[indices[i] + 1]],
                  !.ground_truth =
                      IF Len(w.ground_truth) > 0
                      THEN [i \in 1..Len(indices) |-> w.ground_truth[indices[i] + 1]]
                      ELSE w.ground_truth]

-----------------------------------------------------------------------------
(* class RecData: tables and vocabularies *)

_sys_fields == {"id", "desc", "info", "image", "tfrecord",
                "profile", "context", "user", "item", "trans"}

Columns(t) == DOMAIN t.col
\* DataFrame.pop of a set of columns
Pop(t, cs) == [t EXCEPT !.col = [c \in (DOMAIN t.col) \ cs |-> t.col[c]]]

\* Series.map(dict): a value that is no key of the dict becomes NaN
MapSeries(s, d) == [i \in 1..Len(s) |-> Get(d, s[i], NaN)]

\* OrderedDict([(id, i) for i, id in enumerate(table['id'])])
IndexMap(t) == FromPairs(Enumerate(t.col["id"]))

\* codes in order of first appearance: without the sort (and without the set,
\* so a repeated value takes the code of its last row)
LearnTable_unsorted(t) ==
    [c \in Columns(t) \ _sys_fields |-> FromPairs(Enumerate(t.col[c]))]

\* one table's part of _learn_feature_dict
LearnTable(t) ==
    [c \in Columns(t) \ _sys_fields |-> Enumerate(Sorted(SetOf(t.col[c])))]

\* json.dump turns a dict key that is an int into the string of its digits;
\* json.load gives back string keys only
JsonKey(v) == IF v.kind = "int" THEN StrVal(Digits(v.num)) ELSE v
JsonDump(fd) ==
    [c \in DOMAIN fd |-> [i \in 1..Len(fd[c]) |->
                             [key |-> JsonKey(fd[c][i].key), code |-> fd[c][i].code]]]
JsonLoad(text) == [c \in DOMAIN text |-> FromPairs(text[c])]

\* the three files written by save_feature_dict
SavedFiles(ifd, ufd, tfd) ==
    [item |-> JsonDump(ifd), user |-> JsonDump(ufd), trans |-> JsonDump(tfd)]

\* feature columns mapped through feat_map.get(x, 0), zipped into rows, as uint16
Encode(t, fd) ==
    IF DOMAIN fd = {} THEN <<>>
    ELSE [r \in 1..t.n |-> [c \in DOMAIN fd |-> Get(fd[c], t.col[c][r], 0) % 65536]]

-----------------------------------------------------------------------------
(* class RecData: construction *)

EmptyDict == <<>>

unchanged_data == UNCHANGED <<info_data, desc_data, image_data, profile_data, context_data>>
unchanged_dicts == UNCHANGED <<item_feature_dict, user_feature_dict, trans_feature_dict>>
unchanged_wrappers == UNCHANGED <<train_wrapper, test_wrapper, test_users_arg, train_calls>>
unchanged_tables == UNCHANGED <<items, users, trans>>
unchanged_maps == UNCHANGED <<item_index_map, user_index_map>>

\* trans['item'] and trans['user'] mapped through the index maps
MapKeys(t, iim, uim) ==
    [t EXCEPT !.col = [c \in DOMAIN t.col |->
                          IF c = "item" THEN MapSeries(t.col[c], iim)
                          ELSE IF c = "user" THEN MapSeries(t.col[c], uim)
                          ELSE t.col[c]]]

\* RecData.__init__(items, users, trans, config, feature_path); the tables and
\* the config are the ones drawn in the initial state
RecData_init(feature_path) ==
    /\ pc = "new"
    /\ op' = IF IsNone(feature_path) THEN "__init__" ELSE "__init__(feature_path)"
    /\ item_index_map' = IndexMap(items)
    /\ user_index_map' = IndexMap(users)
    /\ trans' = MapKeys(trans, IndexMap(items), IndexMap(users))
    /\ train_wrapper' = DataWrapper_init
    /\ test_wrapper' = DataWrapper_init
    /\ IF ~IsNone(feature_path)
       THEN \* load_feature_dict(feature_path)
            IF IsNone(disk)
            THEN /\ exc' = "FileNotFoundError"
                 /\ pc' = "failed"
                 /\ unchanged_dicts
            ELSE /\ exc' = "none"
                 /\ pc' = "ready"
                 /\ item_feature_dict' = JsonLoad(The(disk).item)
                 /\ user_feature_dict' = JsonLoad(The(disk).user)
                 /\ trans_feature_dict' = JsonLoad(The(disk).trans)
       ELSE \* _learn_feature_dict()
            /\ exc' = "none"
            /\ pc' = "ready"
            /\ item_feature_dict' = LearnTable(items)
            /\ user_feature_dict' = LearnTable(users)
            /\ trans_feature_dict' = LearnTable(trans)
    /\ unchanged_data
    /\ UNCHANGED <<config, items, users, disk, test_users_arg, train_calls, samples, wrapper>>

-----------------------------------------------------------------------------
(* class RecData: features *)

\* the property _processed
_processed ==
    /\ ~IsNone(info_data)
    /\ ~IsNone(desc_data)
    /\ ~IsNone(image_data)
    /\ ~IsNone(profile_data)
    /\ ~IsNone(context_data)

\* the property _padded (read only where the arrays are set)
_padded ==
    /\ Len(The(info_data)) = items.n + 1
    /\ Len(The(profile_data)) = users.n + 1
    /\ Len(The(context_data)) = trans.n + 1

\* RecData.padding: numpy.vstack takes the arrays as one tuple argument; line
\* 243 passes two positional arguments, so the first statement raises
\* TypeError and no array gets its zero row.
padding(arrays) == [exc |-> "TypeError", arrays |-> arrays]

\* tokenizer output and decoded images: one row per item, content not modelled
OpaqueRows(n) == [r \in 1..n |-> <<0>>]

\* RecData.prepare_features(tokenizer)
prepare_features ==
    /\ pc = "ready"
    /\ op' = "prepare_features"
    /\ IF ~_processed
       THEN LET encoded == [info |-> Encode(items, item_feature_dict),
                            desc |-> OpaqueRows(items.n),
                            image |-> OpaqueRows(items.n),
                            profile |-> Encode(users, user_feature_dict),
                            context |-> Encode(trans, trans_feature_dict)]
                padded == padding(encoded)
            IN  /\ items' = Pop(items, DOMAIN item_feature_dict \cup {"desc", "image"})
                /\ users' = Pop(users, DOMAIN user_feature_dict)
                /\ trans' = Pop(trans, DOMAIN trans_feature_dict)
                /\ info_data' = Some(padded.arrays.info)
                /\ desc_data' = Some(padded.arrays.desc)
                /\ image_data' = Some(padded.arrays.image)
                /\ profile_data' = Some(padded.arrays.profile)
                /\ context_data' = Some(padded.arrays.context)
                /\ exc' = padded.exc
       ELSE /\ exc' = "none"
            /\ unchanged_tables
            /\ unchanged_data
    /\ unchanged_dicts
    /\ unchanged_maps
    /\ unchanged_wrappers
    /\ UNCHANGED <<pc, config, disk, samples, wrapper>>

\* RecData.save_feature_dict(save_dir)
save_feature_dict ==
    /\ pc = "ready"
    /\ op' = "save_feature_dict"
    /\ exc' = "none"
    /\ disk' = Some(SavedFiles(item_feature_dict, user_feature_dict, trans_feature_dict))
    /\ unchanged_dicts
    /\ unchanged_data
    /\ unchanged_tables
    /\ unchanged_maps
    /\ unchanged_wrappers
    /\ UNCHANGED <<pc, config, samples, wrapper>>

\* RecData.load_feature_dict(load_dir)
load_feature_dict ==
    /\ pc = "ready"
    /\ op' = "load_feature_dict"
    /\ IF IsNone(disk)
       THEN /\ exc' = "FileNotFoundError"
            /\ unchanged_dicts
       ELSE /\ exc' = "none"
            /\ item_feature_dict' = JsonLoad(The(disk).item)
            /\ user_feature_dict' = JsonLoad(The(disk).user)
            /\ trans_feature_dict' = JsonLoad(The(disk).trans)
    /\ unchanged_data
    /\ unchanged_tables
    /\ unchanged_maps
    /\ unchanged_wrappers
    /\ UNCHANGED <<pc, config, disk, samples, wrapper>>

-----------------------------------------------------------------------------
(* class RecData: train/test windowing *)

\* ascending order of a set of ints (the group keys of DataFrame.groupby)
RECURSIVE SortedInts(_)
SortedInts(S) ==
    IF S = {} THEN <<>>
    ELSE LET m == CHOOSE x \in S : \A y \in S : x <= y
         IN  <<m>> \o SortedInts(S \ {m})

\* keys of trans.groupby('user'): the distinct values, NaN rows dropped
GroupKeys(t) == SortedInts(SetOf(t.col["user"]) \ {NaN})

\* df.index.to_list() of one group: the 0-based rows of the user, in row order
RECURSIVE GroupRows(_, _, _)
GroupRows(col, user_idx, upto) ==
    IF upto = 0 THEN <<>>
    ELSE IF col[upto] = user_idx
         THEN Append(GroupRows(col, user_idx, upto - 1), upto - 1)
         ELSE GroupRows(col, user_idx, upto - 1)

df_index(t, user_idx) == GroupRows(t.col["user"], user_idx, t.n)
\* df['item'].to_list() of one group
df_item(t, user_idx) ==
    LET rows == df_index(t, user_idx)
    IN  [i \in 1..Len(rows) |-> t.col["item"][rows[i] + 1]]

\* <= in place of < in the length test
is_test_sample_le(n, user_idx, cfg, test_users) ==
    \/ n <= cfg.max_history_length
    \/ (~IsNone(test_users) /\ user_idx \in The(test_users))

\* condition of line 173
is_test_sample(n, user_idx, cfg, test_users) ==
    \/ n < cfg.max_history_length
    \/ (~IsNone(test_users) /\ user_idx \in The(test_users))

\* without the branch for fewer than top_k transactions
test_sample_noshort(trans_indices, item_indices, cfg) ==
    IF Len(trans_indices) = 1
    THEN [history |-> <<>>, ground_truth |-> item_indices]
    ELSE [history |-> SliceTo(trans_indices, -cfg.top_k),
          ground_truth |-> SliceFrom(item_indices, -cfg.top_k)]

\* lines 175-185: history and ground truth of a test-only user
test_sample(trans_indices, item_indices, cfg) ==
    IF Len(trans_indices) = 1
    THEN [history |-> <<>>, ground_truth |-> item_indices]
    ELSE IF Len(trans_indices) < cfg.top_k
    THEN [history |-> SliceTo(trans_indices, 1),
          ground_truth |-> SliceFrom(item_indices, 1)]
    ELSE [history |-> SliceTo(trans_indices, -cfg.top_k),
          ground_truth |-> SliceFrom(item_indices, -cfg.top_k)]

\* min in place of max
cut_offset_min(n, cfg) == Min(n - cfg.top_k, cfg.max_history_length)
\* without the max: the cut ignores max_history_length
cut_offset_nomax(n, cfg) == n - cfg.top_k

\* line 188
cut_offset(n, cfg) == Max(n - cfg.top_k, cfg.max_history_length)

\* body of the loop of prepare_train for one group; ws = [train, test]
process_group(ws, user_idx, trans_indices, item_indices, cfg, test_users) ==
    IF is_test_sample(Len(trans_indices), user_idx, cfg, test_users)
    THEN LET s == test_sample(trans_indices, item_indices, cfg)
         IN  [ws EXCEPT !.test = DataWrapper_append(@, user_idx, s.history,
                                                    Some(s.ground_truth))]
    ELSE LET cut == cut_offset(Len(trans_indices), cfg)
             tr == DataWrapper_append(ws.train, user_idx, SliceTo(trans_indices, cut), None)
         IN  IF cut < Len(trans_indices)
             THEN [train |-> tr,
                   test |-> DataWrapper_append(ws.test, user_idx,
                                               SliceTo(trans_indices, cut),
                                               Some(SliceFrom(item_indices, cut)))]
             ELSE [ws EXCEPT !.train = tr]

\* the loop of prepare_train over the first k groups
RECURSIVE process_groups(_, _, _, _, _, _)
process_groups(ws, keys, k, t, cfg, test_users) ==
    IF k = 0 THEN ws
    ELSE process_group(process_groups(ws, keys, k - 1, t, cfg, test_users),
                       keys[k], df_index(t, keys[k]), df_item(t, keys[k]),
                       cfg, test_users)

\* RecData.prepare_train(test_users); test_users is an optional set of user ids
prepare_train(test_users) ==
    /\ pc = "ready"
    /\ train_calls < MaxTrainCalls
    /\ op' = "prepare_train"
    /\ IF ~IsNone(test_users) /\ \E u \in The(test_users) : ~HasKey(user_index_map, u)
       THEN \* self.user_index_map[user] of an unknown id
            /\ exc' = "KeyError"
            /\ unchanged_wrappers
       ELSE LET mapped == IF IsNone(test_users) THEN None
                          ELSE Some({Lookup(user_index_map, u) : u \in The(test_users)})
                keys == GroupKeys(trans)
                ws == process_groups([train |-> train_wrapper, test |-> test_wrapper],
                                     keys, Len(keys), trans, config, mapped)
            IN  /\ exc' = "none"
                /\ train_wrapper' = DataWrapper_shuffle(ws.train)
                /\ test_wrapper' = ws.test
                /\ test_users_arg' = mapped
                /\ train_calls' = train_calls + 1
    /\ unchanged_dicts
    /\ unchanged_data
    /\ unchanged_tables
    /\ unchanged_maps
    /\ UNCHANGED <<pc, config, disk, samples, wrapper>>

\* one row of pad_sequences(..., maxlen, padding='pre', truncating='pre', value=-1)
pad_pre(s, maxlen) ==
    LET trunc == SliceFrom(s, -maxlen)
    IN  [i \in 1..(maxlen - Len(trunc)) |-> PadValue] \o trunc

pad_sequences(seqs, maxlen) == [i \in 1..Len(seqs) |-> pad_pre(seqs[i], maxlen)]

\* trans.iloc[k]['item'], a negative k counting from the end
iloc_item(t, k) == t.col["item"][(IF k < 0 THEN k + t.n ELSE k) + 1]

\* RecData.train_dataset(batch_size): the rows handed to the dataset
train_dataset ==
    /\ pc = "ready"
    /\ op' = "train_dataset"
    /\ IF ~(_processed /\ _padded)
       THEN /\ exc' = "AssertionError"
            /\ samples' = None
       ELSE LET trans_indices == pad_sequences(train_wrapper.trans_indices,
                                               config.max_history_length)
            IN  /\ exc' = "none"
                /\ samples' = Some([history |-> trans_indices,
                                    items |-> [i \in 1..Len(trans_indices) |->
                                                 [j \in 1..Len(trans_indices[i]) |->
                                                     iloc_item(trans, trans_indices[i][j])]],
                                    users |-> train_wrapper.user_indices])
    /\ unchanged_dicts
    /\ unchanged_data
    /\ unchanged_tables
    /\ unchanged_maps
    /\ unchanged_wrappers
    /\ UNCHANGED <<pc, config, disk, wrapper>>

-----------------------------------------------------------------------------
(* calls on the free-standing DataWrapper *)

WrapperUsers == 0..1
WrapperHistories == {<<>>, <<0>>, <<0, 1>>}
WrapperTruths == {None, Some(<<5>>)}

wrapper_append(user_indice, trans_indices, ground_truth_indices) ==
    /\ pc = "wrapper"
    /\ Len(wrapper.user_indices) < MaxWrap
    /\ op' = "append"
    /\ exc' = IF append_assert(wrapper, user_indice) THEN "none" ELSE "AssertionError"
    /\ wrapper' = DataWrapper_append(wrapper, user_indice, trans_indices,
                                     ground_truth_indices)
    /\ UNCHANGED <<pc, config, items, users, trans, item_index_map, user_index_map,
                   item_feature_dict, user_feature_dict, trans_feature_dict,
                   train_wrapper, test_wrapper, info_data, desc_data, image_data,
                   profile_data, context_data, disk, test_users_arg, train_calls,
                   samples>>

wrapper_set_value(user_indice, trans_indices, ground_truth) ==
    /\ pc = "wrapper"
    /\ op' = "set_value"
    /\ IF ~HasKey(wrapper.index, user_indice)
       THEN exc' = "KeyError" /\ wrapper' = wrapper
       ELSE IF ~set_value_ok(wrapper, user_indice, ground_truth)
       THEN \* user_indices and trans_indices are assigned before the failing line
            /\ exc' = "IndexError"
            /\ wrapper' = DataWrapper_set_value(wrapper, user_indice, trans_indices, None)
       ELSE /\ exc' = "none"
            /\ wrapper' = DataWrapper_set_value(wrapper, user_indice, trans_indices,
                                                ground_truth)
    /\ UNCHANGED <<pc, config, items, users, trans, item_index_map, user_index_map,
                   item_feature_dict, user_feature_dict, trans_feature_dict,
                   train_wrapper, test_wrapper, info_data, desc_data, image_data,
                   profile_data, context_data, disk, test_users_arg, train_calls,
                   samples>>

wrapper_shuffle ==
    /\ pc = "wrapper"
    /\ op' = "shuffle"
    /\ IF ~shuffle_ok(wrapper)
       THEN \* user_indices and trans_indices are already rebuilt, in the same order
            exc' = "IndexError" /\ wrapper' = wrapper
       ELSE exc' = "none" /\ wrapper' = DataWrapper_shuffle(wrapper)
    /\ UNCHANGED <<pc, config, items, users, trans, item_index_map, user_index_map,
                   item_feature_dict, user_feature_dict, trans_feature_dict,
                   train_wrapper, test_wrapper, info_data, desc_data, image_data,
                   profile_data, context_data, disk, test_users_arg, train_calls,
                   samples>>

-----------------------------------------------------------------------------
(* Input tables *)

Str_12 == StrVal(<<49, 50>>)    \* '12'
Str_3 == StrVal(<<51>>)         \* '3'
IntPool == {IntVal(3), IntVal(12)}
StrPool == {Str_12, Str_3}

\* a feature column holds values of one Python type
FeatureColumns(n) == [1..n -> IntPool] \cup [1..n -> StrPool]
ConstColumn(n, v) == [i \in 1..n |-> v]
Range1(n) == [i \in 1..n |-> i]

ItemsTable(ids, cat) ==
    [n |-> Len(ids),
     col |-> [c \in {"id", "desc", "image", "cat"} |->
                 IF c = "id" THEN ids
                 ELSE IF c = "cat" THEN cat
                 ELSE ConstColumn(Len(ids), c)]]

UsersTable(ids, age) ==
    [n |-> Len(ids),
     col |-> [c \in {"id", "age"} |-> IF c = "id" THEN ids ELSE age]]

TransTable(us, is, hour) ==
    [n |-> Len(us),
     col |-> [c \in {"user", "item", "hour"} |->
                 IF c = "user" THEN us ELSE IF c = "item" THEN is ELSE hour]]

Configs ==
    [max_history_length : 1..MaxHist, top_k : 0..MaxTopK]
OneConfig == {[max_history_length |-> 1, top_k |-> 1]}

\* vocabulary runs: the feature columns vary, the ids are 1..n and resolve
VocabItems ==
    UNION {{ItemsTable(Range1(n), cat) : cat \in FeatureColumns(n)} : n \in 1..MaxRows}
VocabUsers == {UsersTable(<<1>>, <<IntVal(3)>>)}
VocabTrans ==
    UNION {{TransTable(ConstColumn(n, 1), ConstColumn(n, 1), hour) :
               hour \in FeatureColumns(n)} : n \in 1..MaxRows}

\* key runs: the ids vary (repeated ids, ids of no row), the features are fixed
IdPool == 1..2
IdColumns == UNION {[1..n -> IdPool] : n \in 1..MaxRows}
KeyItems == {ItemsTable(ids, ConstColumn(Len(ids), Str_3)) : ids \in IdColumns}
KeyUsers == {UsersTable(ids, ConstColumn(Len(ids), Str_3)) : ids \in IdColumns}
KeyTrans ==
    UNION {{TransTable(us, is, ConstColumn(n, Str_3)) :
               us \in [1..n -> IdPool], is \in [1..n -> IdPool]} : n \in 1..MaxRows}

\* windowing runs: users 1 and 2 buy, in any interleaving, either a different
\* item each time or always the same item
TrainItems == {ItemsTable(Range1(MaxTrans), ConstColumn(MaxTrans, Str_3))}
TrainUsers == {UsersTable(<<1, 2>>, ConstColumn(2, Str_3))}
TrainTrans ==
    UNION {{TransTable(us, is, ConstColumn(n, Str_3)) :
               us \in [1..n -> 1..2], is \in {Range1(n), ConstColumn(n, 1)}} :
           n \in 1..MaxTrans}

\* test_users of prepare_train: None or a list of user ids, 9 being no user
TestUserLists == {None, Some({1}), Some({2}), Some({1, 2}), Some({1, 9})}
FeaturePaths == {None, Some("dir")}

-----------------------------------------------------------------------------
(* Specifications *)

\* no RecData object yet: the inputs of __init__ are drawn, the disk is empty
\* or holds the vocabulary files an earlier object saved for the same tables
InitFrom(IT, UT, TT, CF, prior, start) ==
    /\ pc = start
    /\ exc = "none"
    /\ op = "none"
    /\ items \in IT
    /\ users \in UT
    /\ trans \in TT
    /\ config \in CF
    /\ disk \in {None} \cup
                (IF prior
                 THEN {Some(SavedFiles(LearnTable(items), LearnTable(users),
                                       LearnTable(trans)))}
                 ELSE {})
    /\ item_index_map = EmptyDict
    /\ user_index_map = EmptyDict
    /\ item_feature_dict = EmptyDict
    /\ user_feature_dict = EmptyDict
    /\ trans_feature_dict = EmptyDict
    /\ train_wrapper = DataWrapper_init
    /\ test_wrapper = DataWrapper_init
    /\ info_data = None
    /\ desc_data = None
    /\ image_data = None
    /\ profile_data = None
    /\ context_data = None
    /\ test_users_arg = None
    /\ train_calls = 0
    /\ samples = None
    /\ wrapper = DataWrapper_init

Init == InitFrom(VocabItems, VocabUsers, VocabTrans, OneConfig, TRUE, "new")
InitKeys == InitFrom(KeyItems, KeyUsers, KeyTrans, OneConfig, FALSE, "new")
InitTrain == InitFrom(TrainItems, TrainUsers, TrainTrans, Configs, FALSE, "new")

\* only a DataWrapper object exists
InitWrapper ==
    InitFrom(TrainItems, TrainUsers, {TransTable(<<1>>, <<1>>, <<Str_3>>)},
             OneConfig, FALSE, "wrapper")

Next ==
    \/ \E feature_path \in FeaturePaths : RecData_init(feature_path)
    \/ prepare_features
    \/ \E test_users \in TestUserLists : prepare_train(test_users)
    \/ train_dataset
    \/ save_feature_dict
    \/ load_feature_dict

\* the calls the windowing reads or is read by; the vocabulary files are left out
NextTrain ==
    \/ \E feature_path \in FeaturePaths : RecData_init(feature_path)
    \/ prepare_features
    \/ \E test_users \in TestUserLists : prepare_train(test_users)
    \/ train_dataset

NextWrapper ==
    \/ \E u \in WrapperUsers, t \in WrapperHistories, g \in WrapperTruths :
          wrapper_append(u, t, g)
    \/ \E u \in WrapperUsers, t \in WrapperHistories, g \in WrapperTruths :
          wrapper_set_value(u, t, g)
    \/ wrapper_shuffle

Spec == Init /\ [][Next]_vars
SpecKeys == InitKeys /\ [][Next]_vars
SpecTrain == InitTrain /\ [][NextTrain]_vars
SpecWrapper == InitWrapper /\ [][NextWrapper]_vars

-----------------------------------------------------------------------------
(* Properties: train/test windowing (SpecTrain) *)

\* users with at least one transaction, and their number of transactions
ActiveUsers == {u \in 0..(users.n - 1) : \E r \in 1..trans.n : trans.col["user"][r] = u}
NumTrans(u) == Cardinality({r \in 1..trans.n : trans.col["user"][r] = u})
\* the rows of u in table order (0-based) and the items bought in them
RowsOf(u) == df_index(trans, u)
ItemsAt(rows) == [i \in 1..Len(rows) |-> trans.col["item"][rows[i] + 1]]

Occurrences(w, u) == {i \in 1..Len(w.user_indices) : w.user_indices[i] = u}
InTrain(u) == Occurrences(train_wrapper, u) # {}
InTest(u) == Occurrences(test_wrapper, u) # {}
Listed(u) == ~IsNone(test_users_arg) /\ u \in The(test_users_arg)
TestOnlyRule(u) == NumTrans(u) < config.max_history_length \/ Listed(u)
Trained == pc = "ready" /\ train_calls = 1
TestEntries == 1..Len(test_wrapper.user_indices)
TrainEntries == 1..Len(train_wrapper.user_indices)

\* C1 as stated: after prepare_train every user with a transaction is in
\* exactly one of train_wrapper and test_wrapper, in test_wrapper exactly when
\* it has fewer than max_history_length transactions or is listed in test_users.
C1_ExactlyOnePartition ==
    Trained =>
        \A u \in ActiveUsers :
            /\ InTrain(u) # InTest(u)
            /\ InTest(u) <=> TestOnlyRule(u)

\* C1 amended: after prepare_train every user with a transaction is in at
\* least one of the two wrappers and at most once in each; it is in
\* train_wrapper exactly when it has at least max_history_length transactions
\* and is not listed in test_users; it is in test_wrapper exactly when it is
\* test-only by that rule or it is a train user with more than
\* max_history_length transactions and top_k >= 1 (its tail is cut off for test).
C1_PartitionRule ==
    Trained =>
        \A u \in ActiveUsers :
            /\ InTrain(u) \/ InTest(u)
            /\ Cardinality(Occurrences(train_wrapper, u)) <= 1
            /\ Cardinality(Occurrences(test_wrapper, u)) <= 1
            /\ InTrain(u) <=> ~TestOnlyRule(u)
            /\ InTest(u) <=> \/ TestOnlyRule(u)
                             \/ (NumTrans(u) > config.max_history_length /\ config.top_k >= 1)

\* C1 witness: after prepare_train one user is in both wrappers and another
\* user is in test_wrapper only
C1_Witness ==
    /\ Trained
    /\ \E u \in ActiveUsers : InTrain(u) /\ InTest(u)
    /\ \E u \in ActiveUsers : ~InTrain(u) /\ InTest(u)

\* C2 as stated, for top_k >= 1: the ground truth of every test_wrapper entry is
\* the items of the user's last top_k transactions (all of them when there are
\* fewer) and the history is the transactions before those; a user with fewer
\* than max_history_length transactions is test-only.
C2_LastTopK ==
    (Trained /\ config.top_k >= 1) =>
        /\ \A i \in TestEntries :
              LET rows == RowsOf(test_wrapper.user_indices[i])
                  n == Len(rows)
                  k == Min(config.top_k, n)
              IN  /\ test_wrapper.trans_indices[i] = SubSeq(rows, 1, n - k)
                  /\ test_wrapper.ground_truth[i] = ItemsAt(SubSeq(rows, n - k + 1, n))
        /\ \A u \in ActiveUsers :
              NumTrans(u) < config.max_history_length => InTest(u) /\ ~InTrain(u)

\* the number of leading transactions kept as history, by kind of user
CutRule(u) ==
    LET n == NumTrans(u)
    IN  IF TestOnlyRule(u)
        THEN IF n = 1 \/ config.top_k = 0 THEN 0
             ELSE IF n < config.top_k THEN 1
             ELSE n - config.top_k
        ELSE IF n - config.top_k > config.max_history_length
             THEN n - config.top_k
             ELSE config.max_history_length

\* C2 amended: for every test_wrapper entry the history is the user's first c
\* transactions and the ground truth is the items of the remaining ones, in
\* order, where for a test-only user c = 0 if n = 1 or top_k = 0, c = 1 if
\* 2 <= n < top_k and c = n - top_k otherwise, and for a train user
\* c = max(n - top_k, max_history_length); a user with fewer than
\* max_history_length transactions is test-only.
C2_CutRule ==
    Trained =>
        /\ \A i \in TestEntries :
              LET u == test_wrapper.user_indices[i]
                  rows == RowsOf(u)
                  c == CutRule(u)
              IN  /\ test_wrapper.trans_indices[i] = SubSeq(rows, 1, c)
                  /\ test_wrapper.ground_truth[i] = ItemsAt(SubSeq(rows, c + 1, Len(rows)))
        /\ \A u \in ActiveUsers :
              NumTrans(u) < config.max_history_length => InTest(u) /\ ~InTrain(u)

\* C2 witness: a test entry of a user with at least 2 and fewer than top_k
\* transactions, and a test entry of a train user whose tail is shorter than top_k
C2_Witness ==
    /\ Trained
    /\ \E i \in TestEntries :
          LET n == NumTrans(test_wrapper.user_indices[i])
          IN  n >= 2 /\ n < config.top_k
    /\ \E i \in TestEntries :
          /\ InTrain(test_wrapper.user_indices[i])
          /\ Len(test_wrapper.ground_truth[i]) < config.top_k

\* C9: with top_k >= 1, the history of a test_wrapper entry followed by the
\* transactions of its ground truth is the user's transactions in table order,
\* each once, and the ground truth has between 1 and top_k items.
C9_HistoryThenTruth ==
    (pc = "ready" /\ config.top_k >= 1) =>
        \A i \in TestEntries :
            LET rows == RowsOf(test_wrapper.user_indices[i])
                h == test_wrapper.trans_indices[i]
                g == test_wrapper.ground_truth[i]
            IN  /\ Len(h) + Len(g) = Len(rows)
                /\ h = SubSeq(rows, 1, Len(h))
                /\ g = ItemsAt(SubSeq(rows, Len(h) + 1, Len(rows)))
                /\ Len(g) >= 1
                /\ Len(g) <= config.top_k

\* C9 witness: a test entry with a non-empty history and two ground-truth items
C9_Witness ==
    /\ Trained
    /\ config.top_k >= 1
    /\ \E i \in TestEntries :
          /\ Len(test_wrapper.trans_indices[i]) >= 1
          /\ Len(test_wrapper.ground_truth[i]) >= 2

\* C5: every train_wrapper entry holds at least max_history_length transaction
\* indices, so its row of the padded history is its last max_history_length
\* indices: max_history_length positions, no padding value, all of them
\* transactions of the entry's user.
C5_TrainRowsFull ==
    pc = "ready" =>
        \A i \in TrainEntries :
            LET e == train_wrapper.trans_indices[i]
                m == config.max_history_length
                row == pad_sequences(train_wrapper.trans_indices, m)[i]
            IN  /\ Len(e) >= m
                /\ Len(row) = m
                /\ \A j \in 1..m :
                      /\ row[j] = e[Len(e) - m + j]
                      /\ row[j] # PadValue
                      /\ row[j] \in 0..(trans.n - 1)
                      /\ trans.col["user"][row[j] + 1] = train_wrapper.user_indices[i]

\* C5 witness: a train entry longer than max_history_length, so that its row
\* is a proper suffix of it
C5_Witness ==
    /\ Trained
    /\ \E i \in TrainEntries :
          Len(train_wrapper.trans_indices[i]) > config.max_history_length

-----------------------------------------------------------------------------
(* Properties: vocabularies, features and files (Spec) *)

\* the three (table, vocabulary) pairs of the object
Vocabularies ==
    {[t |-> items, fd |-> item_feature_dict],
     [t |-> users, fd |-> user_feature_dict],
     [t |-> trans, fd |-> trans_feature_dict]}
\* every (column, map) of a learned vocabulary
LearnedMaps ==
    UNION {{[column |-> v.t.col[c], map |-> v.fd[c]] : c \in DOMAIN v.fd} : v \in Vocabularies}
Learned == pc = "ready" /\ op = "__init__"

\* C4: _learn_feature_dict gives every non-system column a map from its
\* distinct values onto the codes 0..n-1 in ascending order of the values, and
\* two columns with the same set of values get the same map, whatever the
\* order and the multiplicity of the values in their rows.
C4_SortedVocabulary ==
    Learned =>
        /\ \A v \in Vocabularies : DOMAIN v.fd = Columns(v.t) \ _sys_fields
        /\ \A m \in LearnedMaps :
              LET n == Cardinality(SetOf(m.column))
              IN  /\ Len(m.map) = n
                  /\ Keys(m.map) = SetOf(m.column)
                  /\ Codes(m.map) = 0..(n - 1)
                  /\ \A i, j \in 1..n :
                        ValLess(m.map[i].key, m.map[j].key) <=> m.map[i].code < m.map[j].code
        /\ \A m1, m2 \in LearnedMaps :
              SetOf(m1.column) = SetOf(m2.column) => m1.map = m2.map

\* C4 witness: two learned columns hold the same two values in a different row
\* order, one of them descending
C4_Witness ==
    /\ Learned
    /\ \E m1, m2 \in LearnedMaps :
          /\ SetOf(m1.column) = SetOf(m2.column)
          /\ Cardinality(SetOf(m1.column)) = 2
          /\ m1.column # m2.column
          /\ ValLess(m1.column[2], m1.column[1])

\* C6: save_feature_dict followed by load_feature_dict leaves the three
\* vocabularies as they were, so the loaded maps encode the feature columns
\* as the saved ones did.
C6_RoundTrip ==
    [][(op = "save_feature_dict" /\ op' = "load_feature_dict" /\ exc' = "none") =>
          /\ item_feature_dict' = item_feature_dict
          /\ user_feature_dict' = user_feature_dict
          /\ trans_feature_dict' = trans_feature_dict
          /\ ~_processed =>
                /\ Encode(items, item_feature_dict') = Encode(items, item_feature_dict)
                /\ Encode(users, user_feature_dict') = Encode(users, user_feature_dict)
                /\ Encode(trans, trans_feature_dict') = Encode(trans, trans_feature_dict)]_vars

\* C8: whenever the five data arrays are set, info_data, profile_data and
\* context_data have one more row than items, users and trans.
C8_ProcessedImpliesPadded ==
    (pc = "ready" /\ _processed) => _padded

-----------------------------------------------------------------------------
(* Properties: id remapping (SpecKeys) *)

\* C3: after __init__ every trans['item'] is a row index of items and every
\* trans['user'] is a row index of users.
C3_ForeignKeysResolve ==
    pc = "ready" =>
        \A r \in 1..trans.n :
            /\ trans.col["item"][r] \in 0..(items.n - 1)
            /\ trans.col["user"][r] \in 0..(users.n - 1)

-----------------------------------------------------------------------------
(* Properties: DataWrapper (SpecWrapper) *)

\* C7: append of a user index that is already in the index is rejected with
\* an AssertionError and changes nothing, so no user index occurs twice in
\* user_indices.
C7_NoDuplicateUser ==
    \A i, j \in 1..Len(wrapper.user_indices) :
        wrapper.user_indices[i] = wrapper.user_indices[j] => i = j

====
